---- MODULE Spec2Model ----
(***************************************************************************)
(* Model of otto's Core (src/otto/core.go): Compile, Build, Dev and        *)
(* Execute over a compiled Appfile graph, the fail-fast graph walk, the    *)
(* encrypted credentials routine and the on-disk layout they share.        *)
(***************************************************************************)
EXTENDS Integers, Sequences, FiniteSets, TLC

\* ------------------------------------------------------------------ bounds
\* Largest number of dependency vertices of a compiled Appfile graph.
NumDeps == 2
\* Largest number of vertices whose Appfile lacks an active infrastructure
\* or whose tuple has no app factory.
MaxBroken == 1
\* Largest number of empty passwords the user enters at the encryption prompt
\* of one credentials run.
MaxEmpty == 1

\* ------------------------------------------------------------ value domains
V == 0 .. NumDeps
\* The root vertex of every graph (the one with no inbound edge).
Root == 0
NoVertex == 0 - 1

Passwords == {"correct", "new"}
CredMaps == {[AWS_KEY |-> "x"], [AWS_KEY |-> "y"]}
NilMap == [nil |-> TRUE]
Tasks == {"dev", "infra", "migrate"}
Actions == {"", "destroy"}
\* The arguments that go with an action.
ActionArgs(action) == IF action = "" THEN <<>> ELSE <<"-force">>

\* An error value; Nil is Go's nil error, NotReturned marks a call that has
\* not returned yet, WalkerSkipped a vertex the graph walker never called.
Err(kind, v) == [kind |-> kind, vertex |-> v]
Nil == Err("nil", NoVertex)
NotReturned == Err("none", NoVertex)
WalkerSkipped == Err("skipped", NoVertex)
IsErr(e) == e.kind \notin {"nil", "none", "skipped"}

\* A plugin call, for the call log.
Call(name, v) == <<name, v>>

VARIABLES
  \* --- Core fields (fixed by NewCore)
  deps,          \* appfileCompiled.Graph: vertex -> set of its dependencies
  noInfra,       \* vertices whose Appfile.ActiveInfrastructure() is nil
  apps,          \* vertices whose tuple has a factory in c.apps
  infras,        \* TRUE iff c.infras has a factory for the root's infra type
  \* --- disk
  compileDir,    \* content of compileDir: set of [dir, gen]
  cacheDirs,     \* the directories under <dataDir>/cache that exist
  devDepFile,    \* vertex -> content of <cacheDir>/dev-dep.json
  credsFile,     \* content of <localDir>/creds
  localDirMade,  \* TRUE iff localDir exists
  \* --- the running operation
  op,            \* "none", "Compile", "Build", "Dev", "Execute"
  pc,            \* position of the calling goroutine
  result,        \* the set of errors the operation returned ({} is nil)
  opts,          \* ExecuteOpts of a running Execute
  \* --- walk
  wpc,           \* vertex -> position of its walk wrapper
  ret,           \* vertex -> what its walk wrapper returned
  stop,          \* the atomic stop flag
  results,       \* Compile's results list
  resultLock,    \* holder of resultLock, NoVertex when free
  fragments,     \* vertex -> ctx.DevDepFragments of its context
  \* --- creds routine
  exists,        \* creds: whether <localDir>/creds was found
  value,         \* creds: the password entered at the decrypt prompt
  creds,         \* creds: the local credential map
  password,      \* creds: the password entered at the encrypt prompt
  infraCreds,    \* infraCtx.InfraCreds
  credsRet,      \* what c.creds returned
  \* --- appContext handed to plugins
  ctxAction,     \* Action/ActionArgs of the context handed to the plugin
  \* --- observation
  calls,         \* plugin calls of the running operation: call -> count
  cbInvoked,     \* vertices whose user callback was invoked in this walk
  sawStop,       \* vertices whose wrapper read the stop flag as set
  lateStart,     \* vertices whose wrapper started after an error return
  cbFailed,      \* vertices whose user callback returned an error
  compileOut,    \* vertex -> what its app.Compile returned
  devDepOut,     \* vertex -> what its app.DevDep returned
  written,       \* items written into compileDir by this operation
  erased,        \* TRUE iff this Compile erased compileDir
  disk0          \* the disk when the running operation started

coreVars == <<deps, noInfra, apps, infras>>
diskVars == <<compileDir, cacheDirs, devDepFile, credsFile, localDirMade>>
opVars == <<op, pc, result, opts>>
walkVars == <<wpc, ret, stop, results, resultLock, fragments>>
credVars == <<exists, value, creds, password, infraCreds, credsRet>>
obsButCalls == <<cbInvoked, sawStop, lateStart, cbFailed, compileOut, devDepOut, written,
                 erased, disk0, ctxAction>>
obsVars == <<calls, obsButCalls>>
vars == <<coreVars, diskVars, opVars, walkVars, credVars, obsVars>>

vertices == DOMAIN deps
Disk == [compileDir |-> compileDir, cacheDirs |-> cacheDirs,
         devDepFile |-> devDepFile, credsFile |-> credsFile,
         localDirMade |-> localDirMade]

\* ------------------------------------------------------------------ graphs
\* Every rooted DAG over 0..n: edges lead from a vertex to the vertices it
\* depends on, vertex 0 is the only vertex nothing depends on.
Graphs(n) ==
  {d \in [0 .. n -> SUBSET (0 .. n)] :
     /\ \A v \in 0 .. n : d[v] \subseteq (v + 1) .. n
     /\ \A w \in 1 .. n : \E v \in 0 .. (w - 1) : w \in d[v]}

\* --------------------------------------------------------------- the layout
\* f.ID() of a vertex's Appfile; distinct vertices have distinct ids.
FileID(v) == v
\* An output directory that leaves the id out.
OutputDirFlat(v) == IF FileID(v) = FileID(Root) THEN "app" ELSE "dep"

\* Output directory of an app context.
OutputDir(v) ==
  IF FileID(v) = FileID(Root) THEN "app" ELSE "dep-" \o ToString(FileID(v))
InfraDir == "infra-aws"
\* <dataDir>/cache/<id> of vertex v.
CacheDir(v) == "cache/" \o ToString(FileID(v))
Item(dir, gen) == [dir |-> dir, gen |-> gen]
\* The content of dir once a later operation starts: whatever is there is
\* content from before that operation.
Aged(dir) == IF dir = {} THEN {} ELSE {Item("stale.txt", "prior")}

\* The fragment path the app of v may emit.
FragPath(v) == OutputDir(v) \o "/frag.sh"
\* The *app.CompileResult the app of v returned.
CompileResult(v, path) == [of |-> v, DevDepFragmentPath |-> path]
NoCompileOut == [err |-> NotReturned, res |-> CompileResult(NoVertex, "")]
\* What app.DevDep returned: its error and the files of its descriptor.
DevDepOut(e, files) == [err |-> e, Files |-> files]
NoDevDepOut == DevDepOut(NotReturned, <<>>)

\* <localDir>/creds when it is missing, and when it holds no envelope that
\* any password opens.
AbsentFile == [state |-> "absent"]
CorruptFile == [state |-> "corrupt"]
\* A dev-dep.json that ReadDevDep cannot read: missing, or not a descriptor.
NoDescriptor == [state |-> "none"]

\* ------------------------------------------------- resolution and contexts
\* c.infra() without the test of the active infrastructure.
infraUnchecked(started) ==
  IF ~infras THEN Err("UnknownInfraType", Root)
  ELSE IF ~started THEN Err("InfraStartFailed", Root)
  ELSE Nil

\* c.infra(): the error it returns (Nil when it returns an implementation).
\* started is whether the infrastructure factory started the implementation.
infra(started) ==
  IF ~infras THEN Err("UnknownInfraType", Root)
  ELSE IF Root \in noInfra THEN Err("InfraNotConfigured", Root)
  ELSE IF ~started THEN Err("InfraStartFailed", Root)
  ELSE Nil

\* c.appContext(f) for the Appfile of vertex v: the error it returns.
\* mkdirOk is whether os.MkdirAll(cacheDir) succeeded.
appContext(v, mkdirOk) ==
  IF v \in noInfra THEN Err("InfraNotConfigured", v)
  ELSE IF ~mkdirOk THEN Err("CacheSetupFailed", v)
  ELSE Nil

\* The cache directories after c.appContext(f) for vertex v.
appContextDirs(v, mkdirOk) ==
  IF v \notin noInfra /\ mkdirOk THEN cacheDirs \cup {CacheDir(v)}
  ELSE cacheDirs

\* c.app(ctx) for the context of vertex v: the error it returns.
\* started is whether the app factory started the implementation.
app(v, started) ==
  IF v \notin apps THEN Err("UnknownAppTuple", v)
  ELSE IF ~started THEN Err("AppStartFailed", v)
  ELSE Nil

\* A load that goes on without looking at what c.app returned.
loadAppUnchecked(v, mkdirOk, started) == appContext(v, mkdirOk)

\* appContext followed by app, as walk, Build, Dev and executeApp run them.
loadApp(v, mkdirOk, started) ==
  IF appContext(v, mkdirOk) # Nil THEN appContext(v, mkdirOk)
  ELSE app(v, started)

\* ------------------------------------------------------------ bookkeeping
NoCalls == [c \in {} |-> 0]
Count(c) == IF c \in DOMAIN calls THEN calls[c] ELSE 0
Called(c) == [x \in DOMAIN calls \cup {c} |-> IF x = c THEN Count(c) + 1
                                                ELSE calls[x]]

\* The call log cs with one more call c.
Add(cs, c) == [x \in DOMAIN cs \cup {c} |->
                 IF x = c THEN (IF c \in DOMAIN cs THEN cs[c] ELSE 0) + 1
                 ELSE cs[x]]

\* The call log after c.infra(): the factory is invoked once the type has a
\* factory and the root Appfile has an active infrastructure.
afterInfra ==
  IF infras /\ Root \notin noInfra
  THEN Called(Call("infras.factory", NoVertex)) ELSE calls

\* The call log after c.appContext and c.app for vertex v: the factory is
\* invoked once the context was built and the tuple has a factory.
afterLoad(v, mkdirOk) ==
  IF appContext(v, mkdirOk) = Nil /\ v \in apps
  THEN Called(Call("apps.factory", v)) ELSE calls

NoOpts == [Task |-> "", Action |-> "", Args |-> <<>>]
\* Action and ActionArgs of a context nobody has set them in.
NoAction == [Action |-> "", ActionArgs |-> <<>>]
\* Action and ActionArgs as executeApp and executeInfra set them from o.
SetAction(o) == [Action |-> o.Action, ActionArgs |-> o.Args]

Idle == pc \in {"idle", "done"}

\* The caller invokes operation o on the Core: nothing of an earlier
\* operation is left but the disk.
Begin(o, first, args) ==
  /\ Idle
  /\ op' = o
  /\ pc' = first
  /\ result' = {}
  /\ opts' = args
  /\ compileDir' = Aged(compileDir)
  /\ disk0' = [Disk EXCEPT !.compileDir = Aged(compileDir)]
  /\ wpc' = [v \in vertices |-> "idle"]
  /\ ret' = [v \in vertices |-> NotReturned]
  /\ stop' = 0
  /\ results' = <<>>
  /\ resultLock' = NoVertex
  /\ fragments' = [v \in vertices |-> <<>>]
  /\ exists' = FALSE
  /\ value' = ""
  /\ creds' = NilMap
  /\ password' = ""
  /\ infraCreds' = NilMap
  /\ credsRet' = NotReturned
  /\ ctxAction' = NoAction
  /\ calls' = NoCalls
  /\ cbInvoked' = {}
  /\ sawStop' = {}
  /\ lateStart' = {}
  /\ cbFailed' = {}
  /\ compileOut' = [v \in vertices |-> NoCompileOut]
  /\ devDepOut' = [v \in vertices |-> NoDevDepOut]
  /\ written' = {}
  /\ erased' = FALSE
  /\ UNCHANGED <<coreVars, cacheDirs, devDepFile, credsFile, localDirMade>>

\* The operation returns e to its caller.
Return(e) ==
  /\ pc' = "done"
  /\ result' = IF e = Nil THEN {} ELSE {e}


\* ------------------------------------------------------------------- walk
\* A walker that calls the wrapper of any vertex it has not called yet.
WalkerReadyAny(v) == wpc[v] = "wait"

\* The graph walker calls the wrapper of v once every vertex v depends on
\* has finished without error.
WalkerReady(v) ==
  /\ wpc[v] = "wait"
  /\ \A d \in deps[v] : wpc[d] = "done" /\ ret[d] = Nil

\* A walker that keeps the dependents of a failed vertex waiting.
WalkerSkipNever(v) == FALSE /\ UNCHANGED vars

\* The graph walker never calls the wrapper of a vertex one of whose
\* dependencies failed or was itself left out.
WalkerSkip(v) ==
  /\ pc = "walk"
  /\ wpc[v] = "wait"
  /\ \A d \in deps[v] : wpc[d] = "done"
  /\ \E d \in deps[v] : ret[d] # Nil
  /\ wpc' = [wpc EXCEPT ![v] = "done"]
  /\ ret' = [ret EXCEPT ![v] = WalkerSkipped]
  /\ UNCHANGED <<coreVars, diskVars, opVars, credVars, obsVars,
                 stop, results, resultLock, fragments>>

\* Graph.Walk has returned: every vertex was called or left out.
WalkFinished == \A v \in vertices : wpc[v] = "done"
\* The errors Graph.Walk returns, {} for nil.
WalkErrors == {ret[v] : v \in {w \in vertices : IsErr(ret[w])}}

\* atomic.LoadInt32(&stop) != 0
StopRead(s) == s # 0

\* A deferred function that sets the flag whatever the wrapper returns.
StopStoreAlways(s, e) == 1

\* A deferred function that never sets the flag.
StopStoreNever(s, e) == s

\* The deferred function of the wrapper: the stop flag after it exits with e.
StopStore(s, e) == IF e # Nil THEN 1 ELSE s

\* A wrapper that drops its error: nil goes to the walker, the flag stays.
ExitSilent(v, e) ==
  /\ wpc' = [wpc EXCEPT ![v] = "done"]
  /\ ret' = [ret EXCEPT ![v] = Nil]
  /\ stop' = stop

\* The wrapper of v returns e to the graph walker.
Exit(v, e) ==
  /\ wpc' = [wpc EXCEPT ![v] = "done"]
  /\ ret' = [ret EXCEPT ![v] = e]
  /\ stop' = StopStore(stop, e)

\* A wrapper that tells every callback it runs for the root.
IsRootAlways(v) == TRUE

\* The root argument the wrapper hands to the callback: raw == root.
IsRoot(v) == v = Root

\* Where the callback of the running operation starts for vertex v.
CallbackEntry(v) ==
  IF op = "Compile" THEN (IF IsRoot(v) THEN "lock" ELSE "compile")
  ELSE (IF IsRoot(v) THEN "return" ELSE "probe")

\* The wrapper is called for v and reads the stop flag.
Visit(v) ==
  /\ pc = "walk"
  /\ WalkerReady(v)
  /\ lateStart' = IF \E w \in vertices : IsErr(ret[w])
                  THEN lateStart \cup {v} ELSE lateStart
  /\ IF StopRead(stop)
     THEN /\ Exit(v, Nil)
          /\ sawStop' = sawStop \cup {v}
     ELSE /\ wpc' = [wpc EXCEPT ![v] = "load"]
          /\ UNCHANGED <<ret, stop, sawStop>>
  /\ UNCHANGED <<coreVars, diskVars, opVars, credVars, results, resultLock,
                 fragments, calls, cbInvoked, cbFailed, compileOut, devDepOut, written, erased,
                 disk0, ctxAction>>

\* The wrapper builds the context of v, resolves its app and calls the
\* callback.
Load(v) ==
  /\ pc = "walk"
  /\ wpc[v] = "load"
  /\ \E mkdirOk \in BOOLEAN, started \in BOOLEAN :
       /\ cacheDirs' = appContextDirs(v, mkdirOk)
       /\ calls' = afterLoad(v, mkdirOk)
       /\ IF loadApp(v, mkdirOk, started) # Nil
          THEN /\ Exit(v, loadApp(v, mkdirOk, started))
               /\ UNCHANGED cbInvoked
          ELSE /\ wpc' = [wpc EXCEPT ![v] = CallbackEntry(v)]
               /\ cbInvoked' = cbInvoked \cup {v}
               /\ UNCHANGED <<ret, stop>>
  /\ UNCHANGED <<coreVars, compileDir, devDepFile, credsFile, localDirMade,
                 opVars, credVars, results, resultLock, fragments,
                 sawStop, lateStart, cbFailed, compileOut, devDepOut, written, erased, disk0,
                 ctxAction>>

\* ---------------------------------------------------------------- Compile

\* The loop without its test for the empty path.
DevDepFragmentsAll(rs) ==
  [i \in 1 .. Len(rs) |-> rs[i].DevDepFragmentPath]

\* The loop of the root's callback: the non-empty fragment paths of rs.
DevDepFragments(rs) ==
  LET nonEmpty == SelectSeq(rs, LAMBDA r : r.DevDepFragmentPath # "")
  IN [i \in 1 .. Len(nonEmpty) |-> nonEmpty[i].DevDepFragmentPath]

\* An erase that removes nothing.
RemoveNothing(dir) == dir

\* os.RemoveAll(compileDir): what is left of dir.
RemoveAll(dir) == {}

\* What Compile returns once the walk has returned errs.
CompileResultOf(errs) == {}

\* Every operation runs the credential routine once c.infra() has returned.
InfraThenCreds(o) == "credsStat"

\* What operation o does once c.infra() has returned without error: Build
\* runs c.creds, Compile deletes the prior output directory.
InfraThen(o) == IF o = "Build" THEN "credsStat" ELSE "erase"

StartCompile == Begin("Compile", "infra", NoOpts)

\* c.infra() at the start of Compile.
CompileInfra ==
  /\ op = "Compile" /\ pc = "infra"
  /\ \E started \in BOOLEAN :
       IF infra(started) # Nil
       THEN Return(infra(started))
       ELSE pc' = InfraThen(op) /\ UNCHANGED result
  /\ calls' = afterInfra
  /\ UNCHANGED <<coreVars, diskVars, op, opts, walkVars, credVars,
                 obsButCalls>>

\* Delete the prior output directory.
CompileErase ==
  /\ op = "Compile" /\ pc = "erase"
  /\ \/ /\ compileDir' = RemoveAll(compileDir)
        /\ erased' = TRUE
        /\ pc' = "infraCompile"
        /\ UNCHANGED result
     \/ /\ compileDir' \in SUBSET compileDir
        /\ Return(Err("CompileCleanupFailed", NoVertex))
        /\ UNCHANGED erased
  /\ UNCHANGED <<coreVars, cacheDirs, devDepFile, credsFile, localDirMade,
                 op, opts, walkVars, credVars, calls, cbInvoked, sawStop,
                 lateStart, cbFailed, compileOut, devDepOut, written, disk0, ctxAction>>

\* infra.Compile(infraCtx), then the walk starts.
CompileInfraCompile ==
  /\ op = "Compile" /\ pc = "infraCompile"
  /\ calls' = Called(Call("infra.Compile", NoVertex))
  /\ \/ /\ compileDir' = compileDir \cup {Item(InfraDir, "run")}
        /\ written' = written \cup {Item(InfraDir, "run")}
        /\ pc' = "walk"
        /\ wpc' = [v \in vertices |-> "wait"]
        /\ UNCHANGED result
     \/ /\ Return(Err("infra.Compile", NoVertex))
        /\ UNCHANGED <<compileDir, written, wpc>>
  /\ UNCHANGED <<coreVars, cacheDirs, devDepFile, credsFile, localDirMade,
                 op, opts, ret, stop, results, resultLock, fragments,
                 credVars, cbInvoked, sawStop, lateStart, cbFailed, compileOut, devDepOut,
                 erased, disk0, ctxAction>>

\* A Lock that never waits.
LockFree(holder) == TRUE

\* resultLock.Lock() returns once nobody holds the mutex.
Lock(holder) == holder = NoVertex

\* The root's callback takes resultLock for the snapshot.
CompileLock(v) ==
  /\ op = "Compile" /\ pc = "walk"
  /\ wpc[v] = "lock"
  /\ Lock(resultLock)
  /\ resultLock' = v
  /\ wpc' = [wpc EXCEPT ![v] = "snapshot"]
  /\ UNCHANGED <<coreVars, diskVars, opVars, credVars, obsVars, ret, stop,
                 results, fragments>>

\* The root's callback copies the fragment paths and releases the lock.
CompileSnapshot(v) ==
  /\ op = "Compile" /\ pc = "walk"
  /\ wpc[v] = "snapshot"
  /\ fragments' = [fragments EXCEPT ![v] = DevDepFragments(results)]
  /\ resultLock' = NoVertex
  /\ wpc' = [wpc EXCEPT ![v] = "compile"]
  /\ UNCHANGED <<coreVars, diskVars, opVars, credVars, obsVars, ret, stop,
                 results>>

\* app.Compile(ctx) for v returns.
CompileCall(v) ==
  /\ op = "Compile" /\ pc = "walk"
  /\ wpc[v] = "compile"
  /\ calls' = Called(Call("app.Compile", v))
  /\ \/ /\ compileOut' = [compileOut EXCEPT ![v] =
                            [err |-> Err("app.Compile", v),
                             res |-> CompileResult(NoVertex, "")]]
        /\ Exit(v, Err("app.Compile", v))
        /\ cbFailed' = cbFailed \cup {v}
        /\ UNCHANGED <<compileDir, written>>
     \/ \E path \in {"", FragPath(v)} :
          /\ compileOut' = [compileOut EXCEPT ![v] =
                              [err |-> Nil, res |-> CompileResult(v, path)]]
          /\ compileDir' = compileDir \cup {Item(OutputDir(v), "run")}
          /\ written' = written \cup {Item(OutputDir(v), "run")}
          /\ wpc' = [wpc EXCEPT ![v] = "append"]
          /\ UNCHANGED <<ret, stop, cbFailed>>
  /\ UNCHANGED <<coreVars, cacheDirs, devDepFile, credsFile, localDirMade,
                 opVars, credVars, results, resultLock, fragments, cbInvoked,
                 sawStop, lateStart, devDepOut, erased, disk0, ctxAction>>

\* The callback takes resultLock to store the result.
CompileAppendLock(v) ==
  /\ op = "Compile" /\ pc = "walk"
  /\ wpc[v] = "append"
  /\ Lock(resultLock)
  /\ resultLock' = v
  /\ wpc' = [wpc EXCEPT ![v] = "appending"]
  /\ UNCHANGED <<coreVars, diskVars, opVars, credVars, obsVars, ret, stop,
                 results, fragments>>

\* The result list after the callback of v stored res.
StoreResult(rs, res) == Append(rs, res)

\* The callback appends its result, releases the lock and returns nil.
CompileAppend(v) ==
  /\ op = "Compile" /\ pc = "walk"
  /\ wpc[v] = "appending"
  /\ results' = StoreResult(results, compileOut[v].res)
  /\ resultLock' = NoVertex
  /\ Exit(v, Nil)
  /\ UNCHANGED <<coreVars, diskVars, opVars, credVars, obsVars, fragments>>

\* The walk has returned; Compile returns.
CompileReturn ==
  /\ op = "Compile" /\ pc = "walk"
  /\ WalkFinished
  /\ pc' = "done"
  /\ result' = CompileResultOf(WalkErrors)
  /\ UNCHANGED <<coreVars, diskVars, op, opts, walkVars, credVars, obsVars>>

\* -------------------------------------------------------------------- Dev
\* A file a DevDep names: the directory it lies in and its name.
DevFile(dir, name) == [dir |-> dir, name |-> name]
\* The file lists app.DevDep may return for v: none, a file inside the cache
\* directory, a file outside it.
DevDepFiles(v) ==
  {<<>>, <<DevFile(CacheDir(v), "dep.box")>>, <<DevFile("/tmp", "dep.box")>>}

\* dep.RelFiles(dir): TRUE iff every file lies under dir.
RelFilesOk(files, dir) == \A i \in 1 .. Len(files) : files[i].dir = dir
\* dep.RelFiles(dir): the files made relative to dir.
RelFiles(files, dir) == [i \in 1 .. Len(files) |-> files[i].name]

\* app.WriteDevDep(path, dep): the file holding the descriptor.
WriteDevDep(files) == [state |-> "valid", Files |-> files]
\* app.ReadDevDep(path): TRUE iff it returns no error.
ReadDevDepOk(file) == file.state = "valid"

\* A Dev that goes on to the root whatever the walk returned.
DevStopsNever(errs) == FALSE

\* What Dev does with the errors the walk returned: TRUE iff it returns them.
DevStopsOn(errs) == errs # {}

StartDev == Begin("Dev", "rootApp", NoOpts)

\* Root, its context and its app, before the walk.
DevRootApp ==
  /\ op = "Dev" /\ pc = "rootApp"
  /\ \E mkdirOk \in BOOLEAN, started \in BOOLEAN :
       /\ cacheDirs' = appContextDirs(Root, mkdirOk)
       /\ calls' = afterLoad(Root, mkdirOk)
       /\ IF loadApp(Root, mkdirOk, started) # Nil
          THEN Return(loadApp(Root, mkdirOk, started)) /\ UNCHANGED wpc
          ELSE /\ pc' = "walk"
               /\ wpc' = [v \in vertices |-> "wait"]
               /\ UNCHANGED result
  /\ UNCHANGED <<coreVars, compileDir, devDepFile, credsFile, localDirMade,
                 op, opts, ret, stop, results, resultLock, fragments,
                 credVars, obsButCalls>>

\* The callback for the root returns at once.
DevRootCallback(v) ==
  /\ op = "Dev" /\ pc = "walk"
  /\ wpc[v] = "return"
  /\ Exit(v, Nil)
  /\ UNCHANGED <<coreVars, diskVars, opVars, credVars, obsVars, results,
                 resultLock, fragments>>

\* A cache check that never uses the cache.
UseCacheNever(file) == FALSE

\* The cache check of the callback: TRUE iff it uses the cached descriptor.
UseCache(file) == ReadDevDepOk(file)

\* The callback probes the cached descriptor of dependency v.
DevProbe(v) ==
  /\ op = "Dev" /\ pc = "walk"
  /\ wpc[v] = "probe"
  /\ IF UseCache(devDepFile[FileID(v)])
     THEN Exit(v, Nil)
     ELSE /\ wpc' = [wpc EXCEPT ![v] = "devdep"]
          /\ UNCHANGED <<ret, stop>>
  /\ UNCHANGED <<coreVars, diskVars, opVars, credVars, results, resultLock,
                 fragments, calls, cbInvoked, sawStop, lateStart, cbFailed,
                 compileOut, devDepOut,
                 written, erased, disk0, ctxAction>>

\* A callback that caches every descriptor.
HasFilesAlways(files) == TRUE

\* len(dep.Files) > 0: the descriptor is verified and cached.
HasFiles(files) == Len(files) > 0

\* app.DevDep(rootCtx, ctx) for v returns; its result is cached if it has
\* files.
DevDepCall(v) ==
  /\ op = "Dev" /\ pc = "walk"
  /\ wpc[v] = "devdep"
  /\ calls' = Called(Call("app.DevDep", v))
  /\ \/ /\ Exit(v, Err("app.DevDep", v))
        /\ devDepOut' = [devDepOut EXCEPT ![v] =
                           DevDepOut(Err("app.DevDep", v), <<>>)]
        /\ cbFailed' = cbFailed \cup {v}
        /\ UNCHANGED devDepFile
     \/ \E files \in DevDepFiles(v) :
          /\ devDepOut' = [devDepOut EXCEPT ![v] = DevDepOut(Nil, files)]
          /\ IF ~HasFiles(files)
             THEN Exit(v, Nil) /\ UNCHANGED <<devDepFile, cbFailed>>
             ELSE IF ~RelFilesOk(files, CacheDir(v))
             THEN /\ Exit(v, Err("RelFiles", v))
                  /\ cbFailed' = cbFailed \cup {v}
                  /\ UNCHANGED devDepFile
             ELSE \/ /\ devDepFile' =
                          [devDepFile EXCEPT ![FileID(v)] =
                             WriteDevDep(RelFiles(files, CacheDir(v)))]
                     /\ Exit(v, Nil)
                     /\ UNCHANGED cbFailed
                  \/ /\ devDepFile' = [devDepFile EXCEPT ![FileID(v)] =
                                         NoDescriptor]
                     /\ Exit(v, Err("WriteDevDep", v))
                     /\ cbFailed' = cbFailed \cup {v}
  /\ UNCHANGED <<coreVars, compileDir, cacheDirs, credsFile, localDirMade,
                 opVars, credVars, results, resultLock, fragments, cbInvoked,
                 sawStop, lateStart, compileOut, written, erased, disk0,
                 ctxAction>>

\* The walk has returned: Dev returns its error or goes on to the root.
DevWalkReturn ==
  /\ op = "Dev" /\ pc = "walk"
  /\ WalkFinished
  /\ IF DevStopsOn(WalkErrors)
     THEN pc' = "done" /\ result' = WalkErrors
     ELSE pc' = "rootDev" /\ UNCHANGED result
  /\ UNCHANGED <<coreVars, diskVars, op, opts, walkVars, credVars, obsVars>>

\* rootApp.Dev(rootCtx) returns.
DevRootDev ==
  /\ op = "Dev" /\ pc = "rootDev"
  /\ calls' = Called(Call("app.Dev", Root))
  /\ \E e \in {Nil, Err("app.Dev", Root)} : Return(e)
  /\ UNCHANGED <<coreVars, diskVars, op, opts, walkVars, credVars, cbInvoked,
                 sawStop, lateStart, cbFailed, compileOut, devDepOut, written, erased,
                 disk0, ctxAction>>

\* ------------------------------------------------------------ credentials
\* json.Marshal of a credential map: its key/value pairs in key order.
KeyOrder == <<"AWS_KEY", "AWS_SECRET">>
Marshal(m) ==
  LET keys == SelectSeq(KeyOrder, LAMBDA k : k \in DOMAIN m)
  IN [i \in 1 .. Len(keys) |-> <<keys[i], m[keys[i]]>>]
\* json.Unmarshal of a plaintext into a map[string]string.
Unmarshal(text) ==
  [k \in {text[i][1] : i \in 1 .. Len(text)} |->
     text[CHOOSE i \in 1 .. Len(text) : text[i][1] = k][2]]

\* A write that leaves the file as it was.
cryptWriteSkipped(pw, text) == credsFile

\* cryptWrite(path, password, plaintext): the file it leaves.
cryptWrite(pw, text) == [state |-> "ok", password |-> pw, plaintext |-> text]
\* cryptRead(path, password): TRUE iff it returns no error.
cryptReadOk(file, pw) == file.state = "ok" /\ file.password = pw

\* What the decrypt branch of c.creds leaves in infraCtx.InfraCreds after it
\* read map m: the branch returns without reaching the assignment.
CachedInfraCreds(old, m) == old

\* The position of Build after c.creds returned nil.
AfterCreds == "rootApp"

\* A read whose failure falls through to asking for the credentials again.
AfterDecryptFallThrough(ok) == IF ok THEN AfterCreds ELSE "infraCreds"

\* Where c.creds goes after its read of the file under a non-empty password:
\* it returns nil when the read succeeded and the error when it failed.
AfterDecrypt(ok) == IF ok THEN AfterCreds ELSE "done"

StartBuild == Begin("Build", "infra", NoOpts)

\* c.infra() at the start of Build.
BuildInfra ==
  /\ op = "Build" /\ pc = "infra"
  /\ \E started \in BOOLEAN :
       IF infra(started) # Nil
       THEN Return(infra(started))
       ELSE pc' = InfraThen(op) /\ UNCHANGED result
  /\ calls' = afterInfra
  /\ UNCHANGED <<coreVars, diskVars, op, opts, walkVars, credVars,
                 obsButCalls>>

\* c.creds: probe <localDir>/creds, make localDir when it is missing.
CredsStat ==
  /\ op = "Build" /\ pc = "credsStat"
  /\ IF credsFile.state # "absent"
     THEN /\ exists' = TRUE
          /\ pc' = "credsInput"
          /\ UNCHANGED <<localDirMade, result, credsRet>>
     ELSE \/ /\ localDirMade' = TRUE
             /\ pc' = "infraCreds"
             /\ UNCHANGED <<exists, result, credsRet>>
          \/ /\ credsRet' = Err("MkdirAll", NoVertex)
             /\ Return(Err("MkdirAll", NoVertex))
             /\ UNCHANGED <<exists, localDirMade>>
  /\ UNCHANGED <<coreVars, compileDir, cacheDirs, devDepFile, credsFile,
                 op, opts, walkVars, value, creds, password, infraCreds,
                 obsVars>>

\* A routine that tries to read the file under every password entered.
BlankNever(v) == FALSE

\* The test of the password entered at the decrypt prompt: TRUE iff it is
\* blank, and the file is not read.
Blank(v) == v = ""

\* c.creds: the decrypt prompt and, for a non-empty password, the read.
CredsInput ==
  /\ op = "Build" /\ pc = "credsInput"
  /\ \/ /\ credsRet' = Err("Ui.Input", NoVertex)
        /\ Return(Err("Ui.Input", NoVertex))
        /\ calls' = Called(Call("Ui.Input.decrypt", NoVertex))
        /\ UNCHANGED <<value, creds, infraCreds>>
     \/ \E v \in Passwords \cup {""} :
          /\ value' = v
          /\ IF Blank(v)
             THEN /\ pc' = "infraCreds"
                  /\ calls' = Called(Call("Ui.Input.decrypt", NoVertex))
                  /\ UNCHANGED <<creds, infraCreds, credsRet, result>>
             ELSE LET ok == cryptReadOk(credsFile, v)
                      next == AfterDecrypt(ok)
                      bad == Err("BadCredentialsPassword", NoVertex)
                  IN /\ calls' = Add(Called(Call("Ui.Input.decrypt", NoVertex)),
                                     Call("cryptRead", NoVertex))
                     /\ creds' = IF ok THEN Unmarshal(credsFile.plaintext)
                                 ELSE creds
                     /\ infraCreds' =
                          IF ok
                          THEN CachedInfraCreds(infraCreds,
                                                Unmarshal(credsFile.plaintext))
                          ELSE infraCreds
                     /\ pc' = next
                     /\ credsRet' = IF next = "done" THEN bad
                                    ELSE IF next = AfterCreds THEN Nil
                                    ELSE credsRet
                     /\ result' = IF next = "done" THEN {bad} ELSE result
  /\ UNCHANGED <<coreVars, diskVars, op, opts, walkVars, exists, password,
                 cbInvoked, sawStop, lateStart, cbFailed, compileOut, devDepOut, written,
                 erased, disk0, ctxAction>>

\* c.creds: infra.Creds(infraCtx) returns.
CredsQuery ==
  /\ op = "Build" /\ pc = "infraCreds"
  /\ calls' = Called(Call("infra.Creds", NoVertex))
  /\ \/ /\ credsRet' = Err("infra.Creds", NoVertex)
        /\ Return(Err("infra.Creds", NoVertex))
        /\ UNCHANGED creds
     \/ \E m \in CredMaps :
          /\ creds' = m
          /\ pc' = "credsPassword"
          /\ UNCHANGED <<result, credsRet>>
  /\ UNCHANGED <<coreVars, diskVars, op, opts, walkVars, exists, value,
                 password, infraCreds, cbInvoked, sawStop, lateStart, cbFailed,
                 compileOut, devDepOut, written, erased, disk0, ctxAction>>

\* A loop that asks once, whatever the answer.
AskOnce(pw) == FALSE

\* The loop condition of the encryption prompt: ask again for this answer.
AskAgain(pw) == pw = ""

\* c.creds: one round of the loop asking for the encryption password.
CredsPassword ==
  /\ op = "Build" /\ pc = "credsPassword"
  /\ calls' = Called(Call("Ui.Input.encrypt", NoVertex))
  /\ \/ /\ credsRet' = Err("Ui.Input", NoVertex)
        /\ Return(Err("Ui.Input", NoVertex))
        /\ UNCHANGED password
     \/ \E pw \in Passwords \cup {""} :
          /\ pw = "" => Count(Call("Ui.Input.encrypt", NoVertex)) < MaxEmpty
          /\ password' = pw
          /\ pc' = IF AskAgain(pw) THEN "credsPassword" ELSE "credsWrite"
          /\ UNCHANGED <<result, credsRet>>
  /\ UNCHANGED <<coreVars, diskVars, op, opts, walkVars, exists, value,
                 creds, infraCreds, cbInvoked, sawStop, lateStart, cbFailed,
                 compileOut, devDepOut, written, erased, disk0, ctxAction>>

\* c.creds: encrypt and write the credentials, then set them.
CredsWrite ==
  /\ op = "Build" /\ pc = "credsWrite"
  /\ calls' = Called(Call("cryptWrite", NoVertex))
  /\ \/ /\ credsFile' = cryptWrite(password, Marshal(creds))
        /\ infraCreds' = creds
        /\ credsRet' = Nil
        /\ pc' = AfterCreds
        /\ UNCHANGED result
     \/ /\ credsFile' \in {credsFile, CorruptFile}
        /\ credsRet' = Err("CredentialsWriteFailed", NoVertex)
        /\ Return(Err("CredentialsWriteFailed", NoVertex))
        /\ UNCHANGED infraCreds
  /\ UNCHANGED <<coreVars, compileDir, cacheDirs, devDepFile, localDirMade,
                 op, opts, walkVars, exists, value, creds, password,
                 obsButCalls>>

\* A Build that works on the last vertex of the graph.
BuildVertexLast == CHOOSE v \in vertices : \A w \in vertices : w <= v

\* The vertex Build works on: Graph.Root().
BuildVertex == Root

\* Root, its context and its app.
BuildRootApp ==
  /\ op = "Build" /\ pc = "rootApp"
  /\ \E mkdirOk \in BOOLEAN, started \in BOOLEAN :
       /\ cacheDirs' = appContextDirs(BuildVertex, mkdirOk)
       /\ calls' = afterLoad(BuildVertex, mkdirOk)
       /\ IF loadApp(BuildVertex, mkdirOk, started) # Nil
          THEN Return(loadApp(BuildVertex, mkdirOk, started))
          ELSE pc' = "build" /\ UNCHANGED result
  /\ UNCHANGED <<coreVars, compileDir, devDepFile, credsFile, localDirMade,
                 op, opts, walkVars, credVars, obsButCalls>>

\* rootApp.Build(rootCtx) returns.
BuildRootBuild ==
  /\ op = "Build" /\ pc = "build"
  /\ calls' = Called(Call("app.Build", BuildVertex))
  /\ \E e \in {Nil, Err("app.Build", BuildVertex)} : Return(e)
  /\ UNCHANGED <<coreVars, diskVars, op, opts, walkVars, credVars, cbInvoked,
                 sawStop, lateStart, cbFailed, compileOut, devDepOut, written, erased,
                 disk0, ctxAction>>

\* ---------------------------------------------------------------- Execute
StartExecute ==
  \E task \in Tasks, action \in Actions :
    Begin("Execute", "dispatch",
          [Task |-> task, Action |-> action, Args |-> ActionArgs(action)])

\* A switch whose default case is executeApp.
DispatchDefaultApp(task) ==
  IF task = "infra" THEN "executeInfra" ELSE "executeApp"

\* The switch on opts.Task: where Execute goes, "done" for the default case.
Dispatch(task) ==
  IF task = "dev" THEN "executeApp"
  ELSE IF task = "infra" THEN "executeInfra"
  ELSE "done"

\* Execute: the switch, and the unknown-task error of its default case.
ExecuteDispatch ==
  /\ op = "Execute" /\ pc = "dispatch"
  /\ IF Dispatch(opts.Task) = "done"
     THEN Return(Err("UnknownTask", NoVertex))
     ELSE pc' = Dispatch(opts.Task) /\ UNCHANGED result
  /\ UNCHANGED <<coreVars, diskVars, op, opts, walkVars, credVars, obsVars>>

\* executeApp: the context and app of c.appfile, then app.Dev(appCtx).
ExecuteApp ==
  /\ op = "Execute" /\ pc = "executeApp"
  /\ \E mkdirOk \in BOOLEAN, started \in BOOLEAN :
       /\ cacheDirs' = appContextDirs(Root, mkdirOk)
       /\ IF loadApp(Root, mkdirOk, started) # Nil
          THEN /\ Return(loadApp(Root, mkdirOk, started))
               /\ calls' = afterLoad(Root, mkdirOk)
               /\ UNCHANGED ctxAction
          ELSE /\ ctxAction' = SetAction(opts)
               /\ calls' = Add(afterLoad(Root, mkdirOk),
                               Call("app.Dev", Root))
               /\ \E e \in {Nil, Err("app.Dev", Root)} : Return(e)
  /\ UNCHANGED <<coreVars, compileDir, devDepFile, credsFile, localDirMade,
                 op, opts, walkVars, credVars, cbInvoked, sawStop, lateStart,
                 cbFailed, compileOut, devDepOut, written, erased, disk0>>

\* executeInfra: c.infra(), then infra.Execute(infraCtx).
ExecuteInfra ==
  /\ op = "Execute" /\ pc = "executeInfra"
  /\ \E started \in BOOLEAN :
       IF infra(started) # Nil
       THEN /\ Return(infra(started))
            /\ calls' = afterInfra
            /\ UNCHANGED ctxAction
       ELSE /\ ctxAction' = SetAction(opts)
            /\ calls' = Add(afterInfra, Call("infra.Execute", NoVertex))
            /\ \E e \in {Nil, Err("infra.Execute", NoVertex)} : Return(e)
  /\ UNCHANGED <<coreVars, diskVars, op, opts, walkVars, credVars, cbInvoked,
                 sawStop, lateStart, cbFailed, compileOut, devDepOut, written, erased,
                 disk0>>

\* ---------------------------------------------------------- specification
Configs ==
  {c \in [deps : UNION {Graphs(n) : n \in 0 .. NumDeps},
          noInfra : SUBSET V, apps : SUBSET V, infras : BOOLEAN] :
     /\ c.noInfra \subseteq DOMAIN c.deps
     /\ c.apps \subseteq DOMAIN c.deps
     /\ c.noInfra \subseteq c.apps
     /\ Cardinality(c.noInfra \cup (DOMAIN c.deps \ c.apps)) <= MaxBroken}

\* NewCore over a configuration; compileDir holds a stale file of an earlier
\* session.
Init ==
  /\ \E c \in Configs :
       /\ deps = c.deps
       /\ noInfra = c.noInfra
       /\ apps = c.apps
       /\ infras = c.infras
  /\ compileDir = {Item("stale.txt", "prior")}
  /\ cacheDirs = {}
  /\ devDepFile = [v \in V |-> NoDescriptor]
  /\ credsFile = AbsentFile
  /\ localDirMade = FALSE
  /\ op = "none"
  /\ pc = "idle"
  /\ result = {}
  /\ opts = NoOpts
  /\ wpc = [v \in vertices |-> "idle"]
  /\ ret = [v \in vertices |-> NotReturned]
  /\ stop = 0
  /\ results = <<>>
  /\ resultLock = NoVertex
  /\ fragments = [v \in vertices |-> <<>>]
  /\ exists = FALSE
  /\ value = ""
  /\ creds = NilMap
  /\ password = ""
  /\ infraCreds = NilMap
  /\ credsRet = NotReturned
  /\ ctxAction = NoAction
  /\ calls = NoCalls
  /\ cbInvoked = {}
  /\ sawStop = {}
  /\ lateStart = {}
  /\ cbFailed = {}
  /\ compileOut = [v \in vertices |-> NoCompileOut]
  /\ devDepOut = [v \in vertices |-> NoDevDepOut]
  /\ written = {}
  /\ erased = FALSE
  /\ disk0 = Disk

WalkNext ==
  \/ \E v \in vertices : Visit(v)
  \/ \E v \in vertices : WalkerSkip(v)
  \/ \E v \in vertices : Load(v)

CompileNext ==
  \/ StartCompile \/ CompileInfra \/ CompileErase \/ CompileInfraCompile
  \/ CompileReturn
  \/ \E v \in vertices : CompileLock(v)
  \/ \E v \in vertices : CompileSnapshot(v)
  \/ \E v \in vertices : CompileCall(v)
  \/ \E v \in vertices : CompileAppendLock(v)
  \/ \E v \in vertices : CompileAppend(v)

DevNext ==
  \/ StartDev \/ DevRootApp \/ DevWalkReturn \/ DevRootDev
  \/ \E v \in vertices : DevRootCallback(v)
  \/ \E v \in vertices : DevProbe(v)
  \/ \E v \in vertices : DevDepCall(v)

BuildNext ==
  \/ StartBuild \/ BuildInfra \/ CredsStat \/ CredsInput \/ CredsQuery
  \/ CredsPassword \/ CredsWrite \/ BuildRootApp \/ BuildRootBuild

ExecuteNext == StartExecute \/ ExecuteDispatch \/ ExecuteApp \/ ExecuteInfra

Next == WalkNext \/ CompileNext \/ DevNext \/ BuildNext \/ ExecuteNext

Spec == Init /\ [][Next]_vars

\* Sequences of one operation only.
CompileOnly == WalkNext \/ CompileNext
DevOnly == WalkNext \/ DevNext
SpecCompile == Init /\ [][CompileOnly]_vars
SpecDev == Init /\ [][DevOnly]_vars
SpecBuild == Init /\ [][BuildNext]_vars
SpecExecute == Init /\ [][ExecuteNext]_vars
\* The steps of a Dev walk: the walker, the wrappers, the callbacks with
\* the plugin calls they wait for, and the return of the walk.
WalkProgress ==
  \/ WalkNext
  \/ DevWalkReturn
  \/ \E v \in vertices : DevRootCallback(v)
  \/ \E v \in vertices : DevProbe(v)
  \/ \E v \in vertices : DevDepCall(v)
\* Dev with goroutines that are scheduled and plugin calls that return.
SpecDevLive == Init /\ [][DevOnly]_vars /\ WF_vars(WalkProgress)
\* The two operations that walk the graph.
WalkOnly == WalkNext \/ CompileNext \/ DevNext
SpecWalk == Init /\ [][WalkOnly]_vars

\* ------------------------------------------------------------ observations
Deps == vertices \ {Root}
Failed == {v \in vertices : IsErr(ret[v])}
\* The vertices v depends on, directly or through others.
RECURSIVE Reach(_)
Reach(v) == deps[v] \cup UNION {Reach(d) : d \in deps[v]}
Dependents(d) == {v \in vertices : d \in Reach(v)}
Occurrences(seq, x) == Cardinality({i \in DOMAIN seq : seq[i] = x})
InfraErrors ==
  {Err(k, Root) : k \in {"UnknownInfraType", "InfraNotConfigured",
                         "InfraStartFailed"}}
BadPassword == Err("BadCredentialsPassword", NoVertex)

\* C1: whenever a vertex of the Compile walk failed, Compile returns a
\* non-nil error; it returns nil only if the walk returned no error.
C1_CompileReturnsWalkError ==
  (op = "Compile" /\ pc = "done" /\ WalkErrors # {}) => result # {}

\* C2: once the root's callback has taken its snapshot (app.Compile of the
\* root is invoked with it), every dependency's app.Compile has returned a
\* result and ctx.DevDepFragments holds each non-empty DevDepFragmentPath of
\* those results once, and nothing else.
C2_RootSeesAllFragments ==
  (op = "Compile" /\ wpc[Root] \in {"compile", "append", "appending"}) =>
    /\ \A d \in Deps : compileOut[d].err = Nil
    /\ \A d \in Deps :
         Occurrences(fragments[Root], FragPath(d)) =
           IF compileOut[d].res.DevDepFragmentPath = FragPath(d) THEN 1 ELSE 0
    /\ \A i \in DOMAIN fragments[Root] :
         \E d \in Deps : fragments[Root][i] = FragPath(d)
    /\ Deps = {} => fragments[Root] = <<>>

C2_Witness ==
  /\ op = "Compile" /\ wpc[Root] = "append"
  /\ Cardinality(Deps) = 2
  /\ Len(fragments[Root]) = 1

\* C3: once the callback of a vertex has returned an error, the callback of
\* no vertex that depends on it (the root among them) has been or is invoked,
\* and in Compile app.Compile was not called for any of them.
C3_FailFast ==
  \A d \in cbFailed : \A v \in Dependents(d) :
    /\ v \notin cbInvoked
    /\ Count(Call("app.Compile", v)) = 0

C3_Witness ==
  /\ op = "Compile" /\ pc = "walk" /\ WalkFinished
  /\ \E d \in cbFailed : Root \in Dependents(d)

\* C4 as stated: at most one vertex wrapper of a walk returns an error.
C4_AtMostOneError == Cardinality(Failed) <= 1

\* C4 amended: a wrapper that is called after some wrapper has returned an
\* error returns no error.
C4_NoErrorAfterFirst == \A v \in lateStart : ~IsErr(ret[v])

C4_Witness ==
  /\ WalkFinished
  /\ Cardinality(Failed) = 1
  /\ \E v \in lateStart : ret[v] = Nil

\* C5: whenever c.creds returns nil, infraCtx.InfraCreds is the credential
\* map it read from the file or got from infra.Creds.
C5_InfraCredsSet ==
  credsRet = Nil => (infraCreds = creds /\ creds \in CredMaps)

\* C6: in a Dev walk, a dependency whose dev-dep.json was readable when its
\* callback ran has no app.DevDep call and its descriptor file is unchanged.
C6_CacheHit ==
  op = "Dev" =>
    \A v \in cbInvoked \ {Root} :
      ReadDevDepOk(disk0.devDepFile[FileID(v)]) =>
        /\ Count(Call("app.DevDep", v)) = 0
        /\ devDepFile[FileID(v)] = disk0.devDepFile[FileID(v)]

C6_Witness ==
  /\ op = "Dev" /\ pc = "done"
  /\ \E v \in cbInvoked \ {Root} : ReadDevDepOk(disk0.devDepFile[FileID(v)])
  /\ \E v \in cbInvoked \ {Root} : Count(Call("app.DevDep", v)) = 1

\* C7: in Dev, rootApp.Dev is invoked at most once and only after the walk
\* has finished without error; it is invoked once when the walk returned no
\* error, and when the walk returned errors Dev returns them instead.
C7_RootDevAfterWalk ==
  op = "Dev" =>
    /\ Count(Call("app.Dev", Root)) <= 1
    /\ Count(Call("app.Dev", Root)) = 1 => (WalkFinished /\ WalkErrors = {})
    /\ (pc = "done" /\ WalkFinished /\ WalkErrors = {}) =>
         Count(Call("app.Dev", Root)) = 1
    /\ (pc = "done" /\ WalkErrors # {}) =>
         (result = WalkErrors /\ Count(Call("app.Dev", Root)) = 0)

C7_Witness ==
  /\ op = "Dev" /\ pc = "done"
  /\ Cardinality(Deps) = 2
  /\ Count(Call("app.Dev", Root)) = 1

C7_WitnessFailed ==
  /\ op = "Dev" /\ pc = "done"
  /\ \E d \in Deps : Err("app.DevDep", d) \in result

\* The plugin calls of Compile come after the erase.
EraseFirst ==
  (op = "Compile" /\ \E c \in DOMAIN calls :
                       c[1] \in {"infra.Compile", "app.Compile"}) => erased

\* C8 as stated: after every Compile invocation has returned, compileDir
\* holds exactly what the plugin calls of that invocation wrote.
C8_OnlyThisRun ==
  /\ (op = "Compile" /\ pc = "done") =>
       (compileDir = written /\ \A i \in compileDir : i.gen = "run")
  /\ EraseFirst

\* C8 amended: the same, for every Compile invocation that resolved the
\* infrastructure and whose erase of compileDir succeeded.
C8_OnlyThisRunOnceErased ==
  /\ (/\ op = "Compile" /\ pc = "done"
      /\ result \cap InfraErrors = {}
      /\ Err("CompileCleanupFailed", NoVertex) \notin result) =>
       (compileDir = written /\ \A i \in compileDir : i.gen = "run")
  /\ EraseFirst

C8_Witness ==
  /\ op = "Compile" /\ pc = "done"
  /\ disk0.compileDir # {}
  /\ Item(OutputDir(Root), "run") \in compileDir

\* C9 as stated: an operation that returns the infrastructure-not-configured
\* error of any Appfile it used has left the disk as it found it.
C9_NoSideEffects ==
  (pc = "done" /\ \E v \in vertices : Err("InfraNotConfigured", v) \in result)
    => Disk = disk0

\* C9 amended: an operation on a Core whose root Appfile has no active
\* infrastructure fails with the infrastructure-not-configured error (unless
\* the task is unknown or the infrastructure type has no factory) and leaves
\* the disk as it found it.
C9_RootNoSideEffects ==
  /\ (pc = "done" /\ Err("InfraNotConfigured", Root) \in result)
       => Disk = disk0
  /\ (/\ pc = "done" /\ Root \in noInfra
      /\ Err("UnknownTask", NoVertex) \notin result
      /\ Err("UnknownInfraType", Root) \notin result) =>
       result = {Err("InfraNotConfigured", Root)}

C9_Witness ==
  /\ pc = "done" /\ op = "Compile"
  /\ result = {Err("InfraNotConfigured", Root)}
  /\ compileDir # {}

\* C10: when the creds file exists and the non-empty password entered does
\* not decrypt it, c.creds returns the bad-password error, Build returns it,
\* infra.Creds is not invoked, no encryption password is asked for, the file
\* is unchanged, InfraCreds is not assigned and the root app is not built.
C10_BadPassword ==
  (/\ op = "Build" /\ exists /\ value # ""
   /\ ~cryptReadOk(disk0.credsFile, value)) =>
    /\ credsRet = BadPassword
    /\ pc = "done" /\ result = {BadPassword}
    /\ Count(Call("infra.Creds", NoVertex)) = 0
    /\ Count(Call("Ui.Input.encrypt", NoVertex)) = 0
    /\ credsFile = disk0.credsFile
    /\ infraCreds = NilMap
    /\ Count(Call("app.Build", Root)) = 0

C10_Witness ==
  /\ op = "Build" /\ credsRet = BadPassword
  /\ disk0.credsFile.state = "ok"
  /\ value \in Passwords

\* The creds file was found and the user entered the empty password at the
\* decrypt prompt (the prompt itself did not fail).
Reacquiring ==
  /\ op = "Build" /\ exists /\ value = ""
  /\ Count(Call("Ui.Input.decrypt", NoVertex)) = 1
  /\ ~(/\ credsRet = Err("Ui.Input", NoVertex)
       /\ Count(Call("Ui.Input.encrypt", NoVertex)) = 0)

\* C11: when the creds file exists and the empty password is entered at the
\* decrypt prompt, no decryption is attempted and infra.Creds is invoked,
\* once; when c.creds then returns nil, the encryption password is not empty,
\* the creds file opens under that password and under no other and holds
\* the map infra.Creds returned, and InfraCreds is that map.  A run that
\* enters the password a file was written under decrypts it to the map that
\* was written, and leaves the file alone.
C11_Reacquire ==
  /\ Reacquiring =>
       /\ Count(Call("cryptRead", NoVertex)) = 0
       /\ Count(Call("infra.Creds", NoVertex)) <= 1
       /\ pc # "infraCreds" => Count(Call("infra.Creds", NoVertex)) = 1
  /\ (Reacquiring /\ credsRet = Nil) =>
       /\ password # "" /\ creds \in CredMaps
       /\ \A pw \in Passwords \cup {""} :
            cryptReadOk(credsFile, pw) <=> pw = password
       /\ Unmarshal(credsFile.plaintext) = creds
       /\ infraCreds = creds
  /\ (/\ op = "Build" /\ exists /\ value # ""
      /\ Count(Call("cryptRead", NoVertex)) = 1
      /\ cryptReadOk(disk0.credsFile, value)) =>
       /\ creds \in CredMaps
       /\ creds = Unmarshal(disk0.credsFile.plaintext)
       /\ Marshal(creds) = disk0.credsFile.plaintext
       /\ credsFile = disk0.credsFile

C11_Witness ==
  /\ Reacquiring /\ credsRet = Nil
  /\ disk0.credsFile = cryptWrite("correct", Marshal([AWS_KEY |-> "x"]))
  /\ password = "new" /\ infraCreds = [AWS_KEY |-> "y"]

\* A later run enters the new password and reads the re-acquired map.
C11_WitnessLater ==
  /\ op = "Build" /\ exists /\ value = "new" /\ credsRet = Nil
  /\ disk0.credsFile = cryptWrite("new", Marshal([AWS_KEY |-> "y"]))
  /\ creds = [AWS_KEY |-> "y"]

\* The plugin operations in the call log (factory starts, prompts and file
\* reads and writes are not plugin operations).
PluginOps ==
  {c \in DOMAIN calls :
     c[1] \in {"app.Compile", "app.Build", "app.Dev", "app.DevDep",
               "infra.Compile", "infra.Creds", "infra.Execute"}}
LoadErrors(v) ==
  {Err(k, v) : k \in {"InfraNotConfigured", "CacheSetupFailed",
                      "UnknownAppTuple", "AppStartFailed"}}

\* C12: an Execute whose task is neither dev nor infra returns the
\* unknown-task error with an empty call log (no factory started, no plugin
\* operation), the disk as it was and no context action set.  An Execute of
\* task dev invokes no plugin operation but the root app's Dev, at most once,
\* once unless the root app failed to load, with Action and ActionArgs of the
\* options.  An Execute of task infra invokes no plugin operation but
\* infra.Execute, likewise, and builds no app context.
C12_ExecuteDispatch ==
  (op = "Execute" /\ pc # "dispatch") =>
    /\ opts.Task \notin {"dev", "infra"} =>
         /\ pc = "done" /\ result = {Err("UnknownTask", NoVertex)}
         /\ calls = NoCalls
         /\ Disk = disk0
         /\ ctxAction = NoAction
    /\ opts.Task = "dev" =>
         /\ PluginOps \subseteq {Call("app.Dev", Root)}
         /\ DOMAIN calls \subseteq
              {Call("app.Dev", Root), Call("apps.factory", Root)}
         /\ Count(Call("app.Dev", Root)) <= 1
         /\ Count(Call("app.Dev", Root)) = 1 => ctxAction = SetAction(opts)
         /\ (pc = "done" /\ result \cap LoadErrors(Root) = {}) =>
              Count(Call("app.Dev", Root)) = 1
    /\ opts.Task = "infra" =>
         /\ PluginOps \subseteq {Call("infra.Execute", NoVertex)}
         /\ DOMAIN calls \subseteq
              {Call("infra.Execute", NoVertex), Call("infras.factory", NoVertex)}
         /\ Count(Call("infra.Execute", NoVertex)) <= 1
         /\ Count(Call("infra.Execute", NoVertex)) = 1 =>
              ctxAction = SetAction(opts)
         /\ (pc = "done" /\ result \cap InfraErrors = {}) =>
              Count(Call("infra.Execute", NoVertex)) = 1
         /\ cacheDirs = disk0.cacheDirs

C12_Witness ==
  /\ op = "Execute" /\ pc = "done" /\ opts.Task = "migrate"
  /\ opts.Action = "destroy"
  /\ result = {Err("UnknownTask", NoVertex)}
  /\ cacheDirs # {}

C12_WitnessDev ==
  /\ op = "Execute" /\ pc = "done" /\ opts.Task = "dev"
  /\ Count(Call("app.Dev", Root)) = 1
  /\ ctxAction = [Action |-> "destroy", ActionArgs |-> <<"-force">>]

\* C13: during a Build the only plugin operations are infra.Creds and the
\* root app's Build (no app.Compile, infra.Compile, app.DevDep, app.Dev), no
\* walk wrapper runs, nothing is started or built for a dependency vertex
\* (no call, no cache directory), compileDir is as it was, and the root app's
\* Build is invoked at most once and only after c.infra started the
\* infrastructure, c.creds returned nil and the root app was resolved.
C13_BuildFrame ==
  op = "Build" =>
    /\ PluginOps \subseteq
         {Call("infra.Creds", NoVertex), Call("app.Build", Root)}
    /\ \A c \in DOMAIN calls : c[2] \notin Deps
    /\ \A v \in vertices : wpc[v] = "idle"
    /\ cbInvoked = {}
    /\ cacheDirs \ disk0.cacheDirs \subseteq {CacheDir(Root)}
    /\ compileDir = disk0.compileDir
    /\ Count(Call("app.Build", Root)) <= 1
    /\ Count(Call("app.Build", Root)) = 1 =>
         /\ Count(Call("infras.factory", NoVertex)) = 1
         /\ credsRet = Nil
         /\ Count(Call("apps.factory", Root)) = 1

C13_Witness ==
  /\ op = "Build" /\ pc = "done"
  /\ Count(Call("app.Build", Root)) = 1
  /\ Cardinality(Deps) = 2
  /\ compileDir # {}

\* The vertices whose app.Compile returned a result in this Compile.
Compiled == {v \in vertices : compileOut[v].err = Nil}

\* C14: distinct vertices get distinct Dir values, none of them the infra
\* Dir; the root's is app and a dependency's is dep-<id>: so a Compile has
\* written one directory for every vertex whose app.Compile succeeded, next
\* to the infra directory.  CacheDir is a function of the vertex id alone:
\* every vertex whose callback ran has its own cache directory, and however
\* many operations of whatever task ran, there are no more cache directories
\* than vertices.
C14_DistinctDirs ==
  /\ \A v, w \in vertices :
       v # w => (OutputDir(v) # OutputDir(w) /\ CacheDir(v) # CacheDir(w))
  /\ \A v \in vertices : OutputDir(v) # InfraDir
  /\ OutputDir(Root) = "app"
  /\ \A d \in Deps : OutputDir(d) = "dep-" \o ToString(FileID(d))
  /\ op = "Compile" =>
       /\ \A v \in Compiled : Item(OutputDir(v), "run") \in written
       /\ Cardinality(written) =
            Cardinality(Compiled) +
              (IF Item(InfraDir, "run") \in written THEN 1 ELSE 0)
  /\ \A v \in cbInvoked : CacheDir(v) \in cacheDirs
  /\ Cardinality(cacheDirs) >= Cardinality(cbInvoked)
  /\ Cardinality(cacheDirs) <= Cardinality(vertices)

C14_Witness ==
  /\ op = "Compile" /\ pc = "done"
  /\ Cardinality(Deps) = 2 /\ Cardinality(written) = 4
  /\ Cardinality(disk0.cacheDirs) = 3
  /\ cacheDirs = disk0.cacheDirs

\* Vertices neither of which depends on the other.
Independent(v, w) == v # w /\ v \notin Reach(w) /\ w \notin Reach(v)
\* The vertices whose callback was invoked and has not returned.
InCallback == {v \in cbInvoked : wpc[v] # "done"}

\* C15: when the callback of a vertex has been invoked, the wrapper of
\* every vertex it depends on has returned nil; when the root's callback has
\* been invoked, the callback of every other vertex was invoked and its
\* wrapper has returned nil.
C15_Ordering ==
  /\ \A v \in cbInvoked : \A d \in deps[v] : wpc[d] = "done" /\ ret[d] = Nil
  /\ Root \in cbInvoked =>
       \A v \in vertices \ {Root} :
         v \in cbInvoked /\ wpc[v] = "done" /\ ret[v] = Nil

\* The root's callback runs after a chain of two dependencies.
C15_Witness ==
  /\ Root \in InCallback
  /\ \E v, w \in Deps : w \in deps[v]

\* Independent vertices are in their callbacks at the same time, and their
\* results arrive in either order.
C15_WitnessIndependent ==
  \E v, w \in InCallback : Independent(v, w)
C15_WitnessOrder12 ==
  /\ {1, 2} \subseteq vertices /\ Independent(1, 2) /\ Len(results) = 2
  /\ results[1].of = 1 /\ results[2].of = 2
C15_WitnessOrder21 ==
  /\ {1, 2} \subseteq vertices /\ Independent(1, 2) /\ Len(results) = 2
  /\ results[1].of = 2 /\ results[2].of = 1

\* C16: the stop flag is set exactly when the wrapper of some vertex of the
\* walk has returned an error (it is clear when the walk starts and stays
\* set for the rest of the walk); a wrapper that read the flag as set has
\* returned nil, its callback was not invoked, no app factory was started
\* for it and it made no cache directory.
C16_StopFlag ==
  /\ StopRead(stop) <=> Failed # {}
  /\ \A v \in sawStop :
       /\ wpc[v] = "done" /\ ret[v] = Nil
       /\ v \notin cbInvoked
       /\ Count(Call("apps.factory", v)) = 0
       /\ \A c \in DOMAIN calls : c[2] # v
       /\ CacheDir(v) \in cacheDirs => CacheDir(v) \in disk0.cacheDirs

C16_Witness ==
  /\ pc = "walk" /\ WalkFinished
  /\ \E v \in sawStop : CacheDir(v) \notin cacheDirs
  /\ \E v \in Failed : ret[v].kind \in {"UnknownAppTuple", "AppStartFailed"}

PromptErrors == {Err("infra.Creds", NoVertex), Err("Ui.Input", NoVertex)}

\* C18: no creds file opens under the empty password; after an empty answer
\* at the encryption prompt the routine is at the prompt again (unless the
\* prompt failed); cryptWrite runs at most once per run, after infra.Creds
\* returned a map and with a non-empty password, and the file changes in no
\* other way; a run that ends with the error of infra.Creds or of a prompt
\* leaves the file as it was.
C18_EncryptPrompt ==
  /\ credsFile.state = "ok" => credsFile.password # ""
  /\ op = "Build" =>
       /\ pc = "credsWrite" => password # ""
       /\ (password = "" /\ Count(Call("Ui.Input.encrypt", NoVertex)) >= 1) =>
            (pc = "credsPassword" \/ credsRet = Err("Ui.Input", NoVertex))
       /\ Count(Call("cryptWrite", NoVertex)) <= 1
       /\ Count(Call("cryptWrite", NoVertex)) = 1 =>
            /\ Count(Call("infra.Creds", NoVertex)) = 1
            /\ creds \in CredMaps
            /\ password # ""
       /\ credsFile # disk0.credsFile =>
            Count(Call("cryptWrite", NoVertex)) = 1
       /\ (pc = "done" /\ result \cap PromptErrors # {}) =>
            credsFile = disk0.credsFile

C18_Witness ==
  /\ op = "Build" /\ credsRet = Nil
  /\ Count(Call("Ui.Input.encrypt", NoVertex)) = 2
  /\ disk0.credsFile.state = "ok"
  /\ credsFile.state = "ok" /\ credsFile # disk0.credsFile

C18_WitnessFailed ==
  /\ op = "Build" /\ pc = "done"
  /\ result = {Err("Ui.Input", NoVertex)}
  /\ Count(Call("Ui.Input.encrypt", NoVertex)) = 2
  /\ credsFile.state = "ok"

\* The vertices whose callback is reading or appending to the results list.
InResults == {v \in vertices : wpc[v] \in {"snapshot", "appending"}}
\* The entries of the results list that vertex v stored.
EntriesOf(v) == {i \in DOMAIN results : results[i].of = v}

\* C19: at most one callback is snapshotting or appending to the results
\* list, and it holds resultLock; the list holds one entry, the result its
\* app.Compile returned, for every vertex whose callback returned nil, and
\* no entry for any other vertex.
C19_ResultsExclusive ==
  op = "Compile" =>
    /\ Cardinality(InResults) <= 1
    /\ \A v \in InResults : resultLock = v
    /\ resultLock # NoVertex => resultLock \in InResults
    /\ \A v \in vertices :
         IF v \in cbInvoked /\ wpc[v] = "done" /\ ret[v] = Nil
         THEN /\ Cardinality(EntriesOf(v)) = 1
              /\ compileOut[v].err = Nil
              /\ \A i \in EntriesOf(v) : results[i] = compileOut[v].res
         ELSE EntriesOf(v) = {}
    /\ \A i \in DOMAIN results : results[i].of \in vertices
    /\ (pc = "walk" /\ WalkFinished) => Len(results) = Cardinality(Compiled)

\* One callback appends while an independent one waits for the lock.
C19_Witness ==
  /\ op = "Compile"
  /\ \E v, w \in vertices :
       /\ Independent(v, w)
       /\ wpc[v] = "appending" /\ wpc[w] = "append"

C19_WitnessFull ==
  /\ op = "Compile" /\ pc = "walk" /\ WalkFinished
  /\ Len(results) = 3 /\ results[3].of = Root
  /\ Independent(1, 2)

\* C20: DevDepFragments is empty in the context of every dependency vertex,
\* whatever the operation, and in the root's context in every operation but
\* Compile.
C20_FragmentsRootCompileOnly ==
  \A v \in vertices :
    (v # Root \/ op # "Compile") => fragments[v] = <<>>

\* The root's context of a Compile holds two fragments; every dependency
\* was compiled with none.
C20_Witness ==
  /\ op = "Compile" /\ pc = "done"
  /\ Len(fragments[Root]) = 2
  /\ \A d \in Deps : Count(Call("app.Compile", d)) = 1

\* A dependency that depends on a vertex with a fragment is compiled.
C20_WitnessChain ==
  /\ op = "Compile"
  /\ \E d \in Deps : /\ Count(Call("app.Compile", d)) = 1
                      /\ \E e \in deps[d] :
                           compileOut[e].res.DevDepFragmentPath # ""

\* The vertices whose wrapper went past the stop-flag check and has returned.
Loaded == {v \in vertices : /\ wpc[v] = "done" /\ v \notin sawStop
                            /\ ret[v] # WalkerSkipped}

\* C21: a vertex whose wrapper returned a context or app-resolution error
\* had no callback invoked and no plugin operation called, the stop flag is
\* set, and once the walk has finished the errors it returns hold that
\* error, which names the vertex; and the wrapper of a vertex without active
\* infrastructure or without app factory, once it went past the stop-flag
\* check, returns such an error.
C21_LoadFailure ==
  /\ \A v \in vertices :
       ret[v] \in LoadErrors(v) =>
         /\ v \notin cbInvoked
         /\ \A c \in PluginOps : c[2] # v
         /\ StopRead(stop)
         /\ (pc = "walk" /\ WalkFinished) =>
              \E e \in WalkErrors : e = ret[v] /\ e.vertex = v
         /\ (op = "Dev" /\ pc = "done") => ret[v] \in result
  /\ \A v \in Loaded :
       /\ v \in noInfra => ret[v] = Err("InfraNotConfigured", v)
       /\ v \notin apps => ret[v] \in LoadErrors(v)
  /\ \A v \in vertices : ret[v].kind \in {k.kind : k \in LoadErrors(v)} =>
       ret[v].vertex = v

\* The app factory of a dependency failed: the walk is over, the root was
\* left out.
C21_Witness ==
  /\ op = "Compile" /\ pc = "walk" /\ WalkFinished
  /\ \E v \in Deps : ret[v] = Err("AppStartFailed", v)
  /\ ret[Root] = WalkerSkipped

C21_WitnessKinds ==
  /\ pc = "walk" /\ WalkFinished
  /\ \E v, w \in Deps : /\ ret[v] = Err("CacheSetupFailed", v)
                         /\ ret[w] = Err("UnknownAppTuple", w)

\* The positions of c.creds.
CredsPositions ==
  {"credsStat", "credsInput", "infraCreds", "credsPassword", "credsWrite"}
\* The calls c.creds makes.
CredsCalls ==
  {Call(n, NoVertex) : n \in {"Ui.Input.decrypt", "Ui.Input.encrypt",
                              "infra.Creds", "cryptRead", "cryptWrite"}}

\* C22: an operation other than Build is never inside c.creds and makes
\* none of its calls (no prompt, no infra.Creds, no read or write of the
\* creds file); it leaves the creds file and localDir as they were, and
\* InfraCreds of its infra context is unset; Compile also leaves every
\* dev-dep.json as it was.
C22_CredsOnlyInBuild ==
  op # "Build" =>
    /\ pc \notin CredsPositions
    /\ DOMAIN calls \cap CredsCalls = {}
    /\ ~exists /\ credsRet = NotReturned
    /\ credsFile = disk0.credsFile
    /\ localDirMade = disk0.localDirMade
    /\ infraCreds = NilMap
    /\ op = "Compile" => devDepFile = disk0.devDepFile

\* infra.Execute ran with no credentials although a Build had stored some.
C22_Witness ==
  /\ op = "Execute" /\ pc = "done"
  /\ Count(Call("infra.Execute", NoVertex)) = 1
  /\ credsFile.state = "ok" /\ localDirMade
  /\ infraCreds = NilMap

\* Compile ran over a cache that holds a descriptor.
C22_WitnessCompile ==
  /\ op = "Compile" /\ pc = "done"
  /\ Count(Call("infra.Compile", NoVertex)) = 1
  /\ \E v \in Deps : ReadDevDepOk(devDepFile[FileID(v)])
  /\ credsFile.state = "ok"

\* The dependencies whose Dev callback was invoked and has returned.
DevVisited == {v \in cbInvoked \ {Root} : wpc[v] = "done"}

\* C23: no operation changes a dev-dep.json that can be read, and no
\* operation but Dev changes any; in a Dev, a dependency whose descriptor
\* could be read when the Dev started has no app.DevDep call (a hit,
\* whatever ran in between); a dependency whose callback ran and whose
\* descriptor could not be read has app.DevDep called, once; when that call
\* returned files and the callback returned nil the descriptor can be read
\* from then on and holds the files; when it returned no files or the
\* callback failed there is still no descriptor to read.
C23_DevDepCache ==
  /\ \A v \in V : ReadDevDepOk(disk0.devDepFile[v]) =>
                    devDepFile[v] = disk0.devDepFile[v]
  /\ op # "Dev" => devDepFile = disk0.devDepFile
  /\ op = "Dev" =>
       \A v \in Deps :
         LET before == disk0.devDepFile[FileID(v)]
             now == devDepFile[FileID(v)]
             out == devDepOut[v]
         IN /\ ReadDevDepOk(before) =>
                 Count(Call("app.DevDep", v)) = 0 /\ out = NoDevDepOut
            /\ (v \in DevVisited /\ ~ReadDevDepOk(before)) =>
                 Count(Call("app.DevDep", v)) = 1 /\ out # NoDevDepOut
            /\ (out.err = Nil /\ Len(out.Files) > 0 /\ ret[v] = Nil) =>
                 /\ ReadDevDepOk(now)
                 /\ now.Files = RelFiles(out.Files, CacheDir(v))
            /\ (\/ out.err = Nil /\ Len(out.Files) = 0
                \/ v \in cbFailed) => ~ReadDevDepOk(now)

\* A later Dev, with a Compile in between: one dependency is a hit, for the
\* other, which has no descriptor, app.DevDep is called and returns no
\* files.
C23_Witness ==
  /\ op = "Dev" /\ pc = "done"
  /\ disk0.compileDir = {}
  /\ \E v, w \in DevVisited :
       /\ ReadDevDepOk(disk0.devDepFile[FileID(v)])
       /\ ~ReadDevDepOk(disk0.devDepFile[FileID(w)])
       /\ devDepOut[w] = DevDepOut(Nil, <<>>)

\* The Dev that stores a descriptor.
C23_WitnessStored ==
  /\ op = "Dev" /\ pc = "done"
  /\ \E v \in DevVisited :
       /\ ~ReadDevDepOk(disk0.devDepFile[FileID(v)])
       /\ ReadDevDepOk(devDepFile[FileID(v)])
====
